---- MODULE Spec2Model ----
(***************************************************************************)
(* Task lifecycle manager of src/main.py: the asyncio task queue, the      *)
(* single serial worker, the periodic cleanup of completed tasks, and the  *)
(* HTTP handlers that submit tasks, read the task store and scrape         *)
(* synchronously.                                                          *)
(*                                                                         *)
(* Scheduling is cooperative: a coroutine runs until it awaits something   *)
(* that is not ready.  Each action below is one such uninterrupted run.    *)
(* The worker suspends in task_queue.get() and in crawl_list_page(); the   *)
(* cleanup loop suspends in asyncio.sleep(); the sync endpoint suspends in *)
(* crawl_list_page().                                                      *)
(*                                                                         *)
(* A TaskInfo is one mutable object shared by the queue and by both        *)
(* dictionaries.  The heap of TaskInfo objects is the sequence `tasks`     *)
(* (the task id is the index, standing for the fresh uuid4), and the queue *)
(* and the dictionaries hold task ids, which stand for references.         *)
(*                                                                         *)
(* Optional[...] fields are sequences: <<>> is None, <<v>> is the value v. *)
(* Strings that are built from parts are sequences of their parts.         *)
(***************************************************************************)
EXTENDS Integers, Sequences, FiniteSets, TLC

\* ---------------------------------------------------------------- bounds
MaxTasks == 2
MaxTicks == 1
MaxSync == 1

\* ------------------------------------------------------ program constants
MAX_CONCURRENT_TASKS == 1
CLEANUP_INTERVAL == 60
RETENTION_SECONDS == 3600
SECONDS_PER_DAY == 86400

PENDING == "pending"
PROCESSING == "processing"
COMPLETED == "completed"
FAILED == "failed"
TIMEOUT == "timeout"

TaskStatus == {PENDING, PROCESSING, COMPLETED, FAILED, TIMEOUT}

None == <<>>

Some(v) == <<v>>

\* ----------------------------------------------------------------- inputs
\* The url of a request.  No branch of the code depends on it; it only flows
\* into the record and into the text of a timeout error.
Urls == {"https://a"}

\* Durations by which the wall clock advances between two steps: asyncio.sleep
\* and the awaits only bound the elapsed time from below.
TickSteps == {RETENTION_SECONDS, 2 * RETENTION_SECONDS, SECONDS_PER_DAY}

Link1 == [title |-> "t1", url |-> "u1"]

Link2 == [title |-> "t2", url |-> "u2"]

\* The lists of {"title", "url"} dicts a page can yield.
PageResults == {<<>>, <<Link1, Link2>>, <<Link2, Link1>>}

ErrMsgs == {"net::ERR_FAILED"}

\* What the browser session inside crawl_list_page does: it yields the
\* (title, url) pairs of the page, hits a Playwright timeout, or fails with
\* some other exception.
BrowserOutcomes ==
    [kind : {"ok"}, links : PageResults, msg : {""}]
    \cup [kind : {"timeout"}, links : {<<>>}, msg : {""}]
    \cup [kind : {"error"}, links : {<<>>}, msg : ErrMsgs]

\* ---------------------------------------------------------- pure functions
CodeStr(code) ==
    IF code = 408 THEN "408" ELSE IF code = 404 THEN "404" ELSE "500"

\* HTTPException(status_code, detail)
HTTPException(code, detail) ==
    [status_code |-> code, detail |-> detail]

\* str(e) of an HTTPException: "<status_code>: <detail>"
StrException(e) ==
    <<CodeStr(e.status_code), ": ">> \o e.detail

\* crawl_list_page(url): returns the results, or raises HTTPException 408 on
\* a Playwright timeout and HTTPException 500 on any other exception.
crawl_list_page(url, b) ==
    IF b.kind = "ok"
    THEN [raised |-> FALSE, results |-> b.links,
          exc |-> HTTPException(0, <<>>)]
    ELSE IF b.kind = "timeout"
    THEN [raised |-> TRUE, results |-> <<>>,
          exc |-> HTTPException(408, <<"visiting URL timed out: ", url>>)]
    ELSE [raised |-> TRUE, results |-> <<>>,
          exc |-> HTTPException(500, <<"unexpected error: ", b.msg>>)]

\* ScrapedLink(**item)
ScrapedLink(item) ==
    [title |-> item.title, url |-> item.url]

\* [ScrapedLink(**item) for item in result]
ScrapedLinks(result) ==
    [i \in 1..Len(result) |-> ScrapedLink(result[i])]

\* timedelta.seconds: the seconds component of the normalised
\* (days, seconds, microseconds) representation, 0 <= seconds < 86400.
TimedeltaSeconds(delta) ==
    delta % SECONDS_PER_DAY

\* The test of cleanup_expired_tasks on one record.
IsExpired(task, current_time) ==
    /\ task.completed_at # None
    /\ TimedeltaSeconds(current_time - task.completed_at[1]) > RETENTION_SECONDS

\* A queue that hands out its newest item first.
QueueGetLifo(q) ==
    [item |-> q[Len(q)], rest |-> SubSeq(q, 1, Len(q) - 1)]

\* A queue whose get leaves the item in the queue.
QueueGetPeek(q) ==
    [item |-> Head(q), rest |-> q]

\* asyncio.Queue.get on a non-empty queue: the item at the head, and what
\* stays in the queue.
QueueGet(q) ==
    [item |-> Head(q), rest |-> Tail(q)]

\* asyncio.Queue.put on the unbounded queue.
QueuePut(q, item) ==
    Append(q, item)

\* ------------------------------------------------------------------ state
VARIABLES
    now,                \* datetime.now(), in seconds
    ticks,              \* number of clock advances so far
    tasks,              \* heap of TaskInfo objects, indexed by task id
    task_queue,         \* asyncio.Queue of TaskInfo references
    unfinished_tasks,   \* asyncio.Queue._unfinished_tasks
    active_tasks,       \* keys of the dict active_tasks
    completed_tasks,    \* keys of the dict completed_tasks
    task_semaphore,     \* value of the asyncio.Semaphore
    worker_pc,          \* "get", "crawl" or "cancelled"
    worker_task,        \* task id held by the worker while it crawls, else 0
    janitor_slept_at,   \* time at which the cleanup loop began its sleep
    janitor_pc,         \* "sleep", or "dead" once cleanup_loop has ended
    sync_inflight,      \* /scrape/sync requests awaiting crawl_list_page
    sync_response,      \* last response of /scrape/sync
    h_started,          \* history: task ids in the order they were dequeued
    h_finished,         \* history: fetch outcome of each finished task
    h_evicted,          \* history: task ids deleted by the cleanup
    h_sync_outcome      \* history: fetch outcome behind sync_response

vars == <<now, ticks, tasks, task_queue, unfinished_tasks, active_tasks,
          completed_tasks, task_semaphore, worker_pc, worker_task,
          janitor_slept_at, janitor_pc, sync_inflight, sync_response,
          h_started, h_finished, h_evicted, h_sync_outcome>>

TaskIds == 1..Len(tasks)

Terminal == {COMPLETED, FAILED, TIMEOUT}

NoResponse == [status_code |-> 0, detail |-> <<>>, body |-> <<>>]

NoOutcome == [kind |-> "none", links |-> <<>>, msg |-> ""]

Init ==
    /\ now = 0
    /\ ticks = 0
    /\ tasks = <<>>
    /\ task_queue = <<>>
    /\ unfinished_tasks = 0
    /\ active_tasks = {}
    /\ completed_tasks = {}
    /\ task_semaphore = MAX_CONCURRENT_TASKS
    /\ worker_pc = "get"
    /\ worker_task = 0
    /\ janitor_slept_at = 0
    /\ janitor_pc = "sleep"
    /\ sync_inflight = 0
    /\ sync_response = NoResponse
    /\ h_started = <<>>
    /\ h_finished = <<>>
    /\ h_evicted = {}
    /\ h_sync_outcome = NoOutcome

\* The wall clock advances.
Tick ==
    /\ ticks < MaxTicks
    /\ \E d \in TickSteps : now' = now + d
    /\ ticks' = ticks + 1
    /\ UNCHANGED <<janitor_pc, h_sync_outcome,
                   tasks, task_queue, unfinished_tasks, active_tasks,
                   completed_tasks, task_semaphore, worker_pc, worker_task,
                   janitor_slept_at, sync_inflight, sync_response,
                   h_started, h_finished, h_evicted>>

\* POST /scrape
submit_scrape_task ==
    /\ Len(tasks) < MaxTasks
    /\ \E url \in Urls :
         LET task_id == Len(tasks) + 1
             task_info == [task_id |-> task_id, status |-> PENDING,
                           url |-> url, created_at |-> now,
                           started_at |-> None, completed_at |-> None,
                           result |-> None, error |-> None]
         IN  /\ tasks' = Append(tasks, task_info)
             /\ task_queue' = QueuePut(task_queue, task_id)
             /\ unfinished_tasks' = unfinished_tasks + 1
    /\ UNCHANGED <<janitor_pc, h_sync_outcome,
                   now, ticks, active_tasks, completed_tasks, task_semaphore,
                   worker_pc, worker_task, janitor_slept_at, sync_inflight,
                   sync_response, h_started, h_finished, h_evicted>>

\* A worker that starts the next task without waiting for the one it runs.
task_worker_start_unserialized ==
    /\ worker_pc # "cancelled"
    /\ task_queue # <<>>
    /\ LET task_id == QueueGet(task_queue).item
       IN  /\ task_queue' = QueueGet(task_queue).rest
           /\ task_semaphore' = task_semaphore - 1
           /\ tasks' = [tasks EXCEPT ![task_id].status = PROCESSING,
                                     ![task_id].started_at = Some(now)]
           /\ active_tasks' = active_tasks \cup {task_id}
           /\ worker_task' = task_id
           /\ h_started' = Append(h_started, task_id)
    /\ worker_pc' = "crawl"
    /\ UNCHANGED <<janitor_pc, h_sync_outcome,
                   now, ticks, unfinished_tasks, completed_tasks,
                   janitor_slept_at, sync_inflight, sync_response,
                   h_finished, h_evicted>>

\* task_worker, from task_queue.get() returning to the await of
\* crawl_list_page: dequeue, take the semaphore, mark the task processing.
task_worker_start ==
    /\ worker_pc = "get"
    /\ task_queue # <<>>
    /\ task_semaphore > 0
    /\ LET task_id == QueueGet(task_queue).item
       IN  /\ task_queue' = QueueGet(task_queue).rest
           /\ task_semaphore' = task_semaphore - 1
           /\ tasks' = [tasks EXCEPT ![task_id].status = PROCESSING,
                                     ![task_id].started_at = Some(now)]
           /\ active_tasks' = active_tasks \cup {task_id}
           /\ worker_task' = task_id
           /\ h_started' = Append(h_started, task_id)
    /\ worker_pc' = "crawl"
    /\ UNCHANGED <<janitor_pc, h_sync_outcome,
                   now, ticks, unfinished_tasks, completed_tasks,
                   janitor_slept_at, sync_inflight, sync_response,
                   h_finished, h_evicted>>

\* A worker that records an empty page as a failure.
TaskCompletedEmptyFails(task, result, current_time) ==
    IF result = <<>>
    THEN [task EXCEPT !.status = FAILED,
                      !.completed_at = Some(current_time),
                      !.error = Some(<<"no links found">>)]
    ELSE [task EXCEPT !.status = COMPLETED,
                      !.completed_at = Some(current_time),
                      !.result = Some(ScrapedLinks(result))]

\* A worker that publishes the status before it has the result.
TaskCompletedNoResult(task, result, current_time) ==
    [task EXCEPT !.status = COMPLETED,
                 !.completed_at = Some(current_time)]

\* A worker that stamps the completion with the task's creation time.
TaskCompletedStaleTime(task, result, current_time) ==
    [task EXCEPT !.status = COMPLETED,
                 !.completed_at = Some(task.created_at),
                 !.result = Some(ScrapedLinks(result))]

\* The record of a task after the try-body ran to its end.
TaskCompleted(task, result, current_time) ==
    [task EXCEPT !.status = COMPLETED,
                 !.completed_at = Some(current_time),
                 !.result = Some(ScrapedLinks(result))]

\* A worker that marks a failed task pending again, for a retry.
TaskFailedRetry(task, e, current_time) ==
    [task EXCEPT !.status = PENDING,
                 !.error = Some(StrException(e))]

\* A worker that forgets the completion time of a failed task.
TaskFailedNoTimestamp(task, e, current_time) ==
    [task EXCEPT !.status = FAILED,
                 !.error = Some(StrException(e))]

\* The record of a task after the except-branch ran.
TaskFailed(task, e, current_time) ==
    [task EXCEPT !.status = FAILED,
                 !.completed_at = Some(current_time),
                 !.error = Some(StrException(e))]

\* A worker that copies a finished task to completed_tasks and leaves it in
\* active_tasks.
task_worker_finish_copies ==
    /\ worker_pc = "crawl"
    /\ \E b \in BrowserOutcomes :
         LET task_id == worker_task
             r == crawl_list_page(tasks[task_id].url, b)
         IN  /\ tasks' = [tasks EXCEPT ![task_id] =
                            IF r.raised
                            THEN TaskFailed(tasks[task_id], r.exc, now)
                            ELSE TaskCompleted(tasks[task_id], r.results, now)]
             /\ completed_tasks' = completed_tasks \cup {task_id}
             /\ h_finished' = Append(h_finished,
                                     [task_id |-> task_id, outcome |-> b])
    /\ unfinished_tasks' = unfinished_tasks - 1
    /\ task_semaphore' = task_semaphore + 1
    /\ worker_pc' = "get"
    /\ worker_task' = 0
    /\ UNCHANGED <<janitor_pc, h_sync_outcome,
                   now, ticks, task_queue, active_tasks, janitor_slept_at,
                   sync_inflight, sync_response, h_started, h_evicted>>

\* A worker whose loop ends when a task's fetch raises.
task_worker_finish_crashes ==
    /\ worker_pc = "crawl"
    /\ \E b \in BrowserOutcomes :
         LET task_id == worker_task
             r == crawl_list_page(tasks[task_id].url, b)
         IN  /\ tasks' = [tasks EXCEPT ![task_id] =
                            IF r.raised
                            THEN TaskFailed(tasks[task_id], r.exc, now)
                            ELSE TaskCompleted(tasks[task_id], r.results, now)]
             /\ completed_tasks' = completed_tasks \cup {task_id}
             /\ active_tasks' = active_tasks \ {task_id}
             /\ h_finished' = Append(h_finished,
                                     [task_id |-> task_id, outcome |-> b])
             /\ worker_pc' = IF r.raised THEN "crashed" ELSE "get"
    /\ unfinished_tasks' = unfinished_tasks - 1
    /\ task_semaphore' = task_semaphore + 1
    /\ worker_task' = 0
    /\ UNCHANGED <<janitor_pc, h_sync_outcome,
                   now, ticks, task_queue, janitor_slept_at, sync_inflight,
                   sync_response, h_started, h_evicted>>

\* task_worker, from crawl_list_page returning or raising to the next
\* task_queue.get(): record the outcome, move the task to completed_tasks,
\* task_done(), release the semaphore.
task_worker_finish ==
    /\ worker_pc = "crawl"
    /\ \E b \in BrowserOutcomes :
         LET task_id == worker_task
             r == crawl_list_page(tasks[task_id].url, b)
         IN  /\ tasks' = [tasks EXCEPT ![task_id] =
                            IF r.raised
                            THEN TaskFailed(tasks[task_id], r.exc, now)
                            ELSE TaskCompleted(tasks[task_id], r.results, now)]
             /\ completed_tasks' = completed_tasks \cup {task_id}
             /\ active_tasks' = active_tasks \ {task_id}
             /\ h_finished' = Append(h_finished,
                                     [task_id |-> task_id, outcome |-> b])
    /\ unfinished_tasks' = unfinished_tasks - 1
    /\ task_semaphore' = task_semaphore + 1
    /\ worker_pc' = "get"
    /\ worker_task' = 0
    /\ UNCHANGED <<janitor_pc, h_sync_outcome,
                   now, ticks, task_queue, janitor_slept_at, sync_inflight,
                   sync_response, h_started, h_evicted>>

\* task_worker cancelled while it awaits crawl_list_page: CancelledError is
\* not an Exception, so neither except clause runs; the finally clause and
\* the semaphore's exit run, and the coroutine ends.
task_worker_cancel ==
    /\ worker_pc = "crawl"
    /\ unfinished_tasks' = unfinished_tasks - 1
    /\ task_semaphore' = task_semaphore + 1
    /\ worker_pc' = "cancelled"
    /\ worker_task' = 0
    /\ UNCHANGED <<janitor_pc, h_sync_outcome,
                   now, ticks, tasks, task_queue, active_tasks,
                   completed_tasks, janitor_slept_at, sync_inflight,
                   sync_response, h_started, h_finished, h_evicted>>

\* The ids cleanup_expired_tasks collects in expired_tasks.
ExpiredTasks(current_time) ==
    {task_id \in completed_tasks : IsExpired(tasks[task_id], current_time)}

\* A cleanup that also drops whatever is in active_tasks.
cleanup_purges_active ==
    /\ janitor_pc = "sleep"
    /\ now - janitor_slept_at >= CLEANUP_INTERVAL
    /\ completed_tasks' = completed_tasks \ ExpiredTasks(now)
    /\ active_tasks' = {}
    /\ h_evicted' = h_evicted \cup ExpiredTasks(now)
    /\ janitor_slept_at' = now
    /\ UNCHANGED <<janitor_pc, h_sync_outcome,
                   now, ticks, tasks, task_queue, unfinished_tasks,
                   task_semaphore, worker_pc, worker_task,
                   sync_inflight, sync_response, h_started, h_finished>>

\* One cycle of cleanup_loop: the sleep of CLEANUP_INTERVAL seconds is over,
\* cleanup_expired_tasks runs, the loop sleeps again.
cleanup_expired_tasks ==
    /\ janitor_pc = "sleep"
    /\ now - janitor_slept_at >= CLEANUP_INTERVAL
    /\ completed_tasks' = completed_tasks \ ExpiredTasks(now)
    /\ h_evicted' = h_evicted \cup ExpiredTasks(now)
    /\ janitor_slept_at' = now
    /\ UNCHANGED <<janitor_pc, h_sync_outcome,
                   now, ticks, tasks, task_queue, unfinished_tasks,
                   active_tasks, task_semaphore, worker_pc, worker_task,
                   sync_inflight, sync_response, h_started, h_finished>>

\* A cycle of cleanup_loop in which cleanup_expired_tasks raises.  Nothing
\* in cleanup_expired_tasks or cleanup_loop catches an exception: the records
\* deleted before it stay deleted and the loop's coroutine ends.  (No
\* statement of the cycle raises on the records this program creates itself,
\* so this step is part of SpecFault only.)
cleanup_cycle_raises ==
    /\ janitor_pc = "sleep"
    /\ now - janitor_slept_at >= CLEANUP_INTERVAL
    /\ \E deleted \in SUBSET ExpiredTasks(now) :
         /\ completed_tasks' = completed_tasks \ deleted
         /\ h_evicted' = h_evicted \cup deleted
    /\ janitor_pc' = "dead"
    /\ UNCHANGED <<h_sync_outcome,
                   now, ticks, tasks, task_queue, unfinished_tasks,
                   active_tasks, task_semaphore, worker_pc, worker_task,
                   janitor_slept_at, sync_inflight, sync_response,
                   h_started, h_finished>>

\* GET /scrape/sync, up to the await of crawl_list_page.
scrape_sync_start ==
    /\ sync_inflight < MaxSync
    /\ sync_inflight' = sync_inflight + 1
    /\ UNCHANGED <<janitor_pc, h_sync_outcome,
                   now, ticks, tasks, task_queue, unfinished_tasks,
                   active_tasks, completed_tasks, task_semaphore, worker_pc,
                   worker_task, janitor_slept_at, sync_response,
                   h_started, h_finished, h_evicted>>

\* The response of /scrape/sync once crawl_list_page returned or raised.
\* The HTTPException 404 for an empty list is raised inside the try block,
\* so the except clause turns it into a 500 like any other exception.
SyncResponse(r) ==
    IF r.raised
    THEN [status_code |-> 500,
          detail |-> <<"scrape failed: ">> \o StrException(r.exc),
          body |-> <<>>]
    ELSE IF r.results = <<>>
    THEN [status_code |-> 500,
          detail |-> <<"scrape failed: ">>
                     \o StrException(HTTPException(404, <<"no links found">>)),
          body |-> <<>>]
    ELSE [status_code |-> 200, detail |-> <<>>, body |-> r.results]

\* GET /scrape/sync, from crawl_list_page returning or raising to the
\* response.
scrape_sync_finish ==
    /\ sync_inflight > 0
    /\ \E url \in Urls, b \in BrowserOutcomes :
         /\ sync_response' = SyncResponse(crawl_list_page(url, b))
         /\ h_sync_outcome' = b
    /\ sync_inflight' = sync_inflight - 1
    /\ UNCHANGED <<janitor_pc,
                   now, ticks, tasks, task_queue, unfinished_tasks,
                   active_tasks, completed_tasks, task_semaphore, worker_pc,
                   worker_task, janitor_slept_at,
                   h_started, h_finished, h_evicted>>

\* GET /task/{task_id}
get_task_status(task_id) ==
    IF task_id \in active_tasks
    THEN [status_code |-> 200, detail |-> <<>>, body |-> <<tasks[task_id]>>]
    ELSE IF task_id \in completed_tasks
    THEN [status_code |-> 200, detail |-> <<>>, body |-> <<tasks[task_id]>>]
    ELSE [status_code |-> 404,
          detail |-> <<"task does not exist or has expired">>,
          body |-> <<>>]

\* GET /task/{task_id}/result
get_task_result(task_id) ==
    IF task_id \notin completed_tasks
    THEN [status_code |-> 404,
          detail |-> <<"task does not exist or is not completed">>,
          body |-> <<>>]
    ELSE IF tasks[task_id].status # COMPLETED
    THEN [status_code |-> 400,
          detail |-> <<"no result for task status ", tasks[task_id].status>>,
          body |-> <<>>]
    ELSE IF tasks[task_id].result = None \/ tasks[task_id].result[1] = <<>>
    THEN [status_code |-> 404, detail |-> <<"task result is empty">>,
          body |-> <<>>]
    ELSE [status_code |-> 200, detail |-> <<>>,
          body |-> tasks[task_id].result[1]]

\* GET /health
health_check ==
    [queue_size |-> Len(task_queue),
     active_tasks |-> Cardinality(active_tasks),
     completed_tasks |-> Cardinality(completed_tasks),
     max_concurrent_tasks |-> MAX_CONCURRENT_TASKS]

\* The task lifecycle manager: submissions, the worker, the cleanup loop and
\* the clock.  The readers are the operators above.
Next ==
    \/ Tick
    \/ submit_scrape_task
    \/ task_worker_start
    \/ task_worker_finish
    \/ task_worker_cancel
    \/ cleanup_expired_tasks

Spec == Init /\ [][Next]_vars

\* The task lifecycle manager with a worker that is scheduled fairly: the
\* event loop resumes it when the queue has an item, and every
\* crawl_list_page call it awaits returns or raises unless the worker is
\* cancelled first.
SpecFair ==
    /\ Init
    /\ [][Next]_vars
    /\ WF_vars(task_worker_start)
    /\ WF_vars(task_worker_finish)

\* The task lifecycle manager with a cleanup cycle that may raise.
NextFault ==
    \/ Next
    \/ cleanup_cycle_raises

SpecFault == Init /\ [][NextFault]_vars

\* The task lifecycle manager together with the /scrape/sync endpoint, which
\* shares crawl_list_page with the worker and no variable with it.
NextSync ==
    \/ Next
    \/ scrape_sync_start
    \/ scrape_sync_finish

SpecSync == Init /\ [][NextSync]_vars

\* ------------------------------------------------------------ properties
StatusOf(task_id) == tasks[task_id].status

ProcessingTasks == {task_id \in TaskIds : StatusOf(task_id) = PROCESSING}

\* Number of crawl_list_page calls that have been started and not yet
\* returned or raised.
FetchesInFlight ==
    (IF worker_pc = "crawl" THEN 1 ELSE 0) + sync_inflight

IsNotFound(response) == response.status_code = 404

Contains(s, x) == \E i \in 1..Len(s) : s[i] = x

\* The finished tasks whose crawl_list_page call had an outcome of this kind.
FinishedWith(kind) ==
    {i \in 1..Len(h_finished) : h_finished[i].outcome.kind = kind}

\* C1: at most one task is Processing, the active partition holds at most one
\* record, and every task dequeued before the latest one has a terminal
\* status.
C1_SerialProcessing ==
    /\ Cardinality(ProcessingTasks) <= 1
    /\ Cardinality(active_tasks) <= 1
    /\ \A i \in 1..Len(h_started) :
         i < Len(h_started) => StatusOf(h_started[i]) \in Terminal

\* Two tasks were dequeued and the second one is being processed.
C1_Witness ==
    /\ Len(h_started) = 2
    /\ StatusOf(h_started[2]) = PROCESSING

\* C2: at most one crawl_list_page call is in flight, counting the worker's
\* and those of /scrape/sync.
C2_AtMostOneFetch ==
    FetchesInFlight <= 1

C3_QueuedArePending ==
    \A i \in 1..Len(task_queue) :
        /\ StatusOf(task_queue[i]) = PENDING
        /\ \A j \in 1..Len(task_queue) : task_queue[i] = task_queue[j] => i = j

C3_Step ==
    /\ \A task_id \in TaskIds :
         tasks'[task_id].status # tasks[task_id].status =>
            \/ /\ tasks[task_id].status = PENDING
               /\ tasks'[task_id].status = PROCESSING
            \/ /\ tasks[task_id].status = PROCESSING
               /\ tasks'[task_id].status \in Terminal
    /\ \A task_id \in (1..Len(tasks')) \ TaskIds :
         tasks'[task_id].status = PENDING
    /\ \A i \in 1..Len(task_queue') :
         Contains(task_queue, task_queue'[i]) \/ task_queue'[i] \notin TaskIds

\* C3: a task starts Pending, its status only ever changes from Pending to
\* Processing and from Processing to a terminal status, the queue holds
\* pending tasks only, and only a newly submitted task enters the queue.
C3_StatusSequence ==
    []C3_QueuedArePending /\ [][C3_Step]_vars

\* A task failed and a later task is waiting in the queue behind it.
C3_Witness ==
    /\ \E task_id \in TaskIds : StatusOf(task_id) = FAILED
    /\ task_queue # <<>>

\* C4: tasks are dequeued and finished in the order they were submitted: a
\* task has left Pending only if every task submitted before it has, and is
\* terminal only if every task submitted before it is.
C4_Fifo ==
    /\ \A i \in 1..Len(h_started) : h_started[i] = i
    /\ \A i \in 1..Len(h_finished) : h_finished[i].task_id = i
    /\ \A a \in TaskIds, b \in TaskIds :
         a < b =>
            /\ StatusOf(b) # PENDING => StatusOf(a) # PENDING
            /\ StatusOf(b) \in Terminal => StatusOf(a) \in Terminal

\* Two tasks were queued together and both have finished.
C4_Witness ==
    /\ Len(h_finished) = 2
    /\ tasks[2].created_at <= tasks[1].started_at[1]

\* C5: a task whose fetch signalled a timeout has status Timeout, no result
\* and a non-empty error that contains its URL.
C5_TimeoutStatus ==
    \A i \in FinishedWith("timeout") :
        LET task == tasks[h_finished[i].task_id]
        IN  /\ task.status = TIMEOUT
            /\ task.result = None
            /\ task.error # None
            /\ task.error[1] # <<>>
            /\ Contains(task.error[1], task.url)

\* C6: a task whose fetch returned n pairs has status Completed, a result of
\* exactly these n entries in this order, and no error.
C6_Completed ==
    \A i \in FinishedWith("ok") :
        LET task == tasks[h_finished[i].task_id]
            links == h_finished[i].outcome.links
        IN  /\ task.status = COMPLETED
            /\ task.error = None
            /\ task.result # None
            /\ Len(task.result[1]) = Len(links)
            /\ \A k \in 1..Len(links) :
                 /\ task.result[1][k].title = links[k].title
                 /\ task.result[1][k].url = links[k].url

\* One task finished with an empty page and another one with two links.
C6_Witness ==
    /\ \E i \in FinishedWith("ok") : h_finished[i].outcome.links = <<>>
    /\ \E i \in FinishedWith("ok") : Len(h_finished[i].outcome.links) = 2

\* C7: a task whose fetch failed with an error other than a timeout has
\* status Failed, no result, the exception's text as its error, and a
\* completion time.
C7_Failed ==
    \A i \in FinishedWith("error") :
        LET task == tasks[h_finished[i].task_id]
            r == crawl_list_page(task.url, h_finished[i].outcome)
        IN  /\ task.status = FAILED
            /\ task.result = None
            /\ task.error = Some(StrException(r.exc))
            /\ task.completed_at # None

\* A task's fetch failed with an error that is no timeout.
C7_Witness ==
    FinishedWith("error") # {}

\* C8: a cleanup cycle leaves in the completed partition exactly the records
\* whose age is at most the retention window.
C8_EvictsByAge ==
    [][janitor_slept_at' # janitor_slept_at =>
        completed_tasks' =
            {task_id \in completed_tasks :
                now - tasks[task_id].completed_at[1] <= RETENTION_SECONDS}]_vars

\* C9: every submitted task that was not evicted, the queued ones included,
\* has a record that get_task_status returns.
C9_StatusReadable ==
    \A task_id \in TaskIds \ h_evicted :
        /\ get_task_status(task_id).status_code = 200
        /\ get_task_status(task_id).body = <<tasks[task_id]>>

\* C10: get_task_status answers 404 for an id that was never submitted, and
\* get_task_status and get_task_result answer 404 for an evicted id, which is
\* in neither partition.
C10_NotFound ==
    /\ \A task_id \in (1..(MaxTasks + 1)) \ TaskIds :
         IsNotFound(get_task_status(task_id))
    /\ \A task_id \in h_evicted :
         /\ IsNotFound(get_task_status(task_id))
         /\ IsNotFound(get_task_result(task_id))
         /\ task_id \notin active_tasks \cup completed_tasks

\* A record was evicted and the worker is processing a later task.
C10_Witness ==
    /\ h_evicted # {}
    /\ worker_pc = "crawl"

\* C11: get_task_result answers a Completed task with its result, a Pending
\* or Processing task with something other than 404 and other than what an
\* unknown id gets, and an unknown or evicted id with 404.
C11_ResultOutcomes ==
    \A task_id \in 1..(MaxTasks + 1) :
        LET r == get_task_result(task_id)
        IN  /\ (task_id \in TaskIds \ h_evicted
                  /\ StatusOf(task_id) = COMPLETED) =>
                    /\ r.status_code = 200
                    /\ r.body = tasks[task_id].result[1]
            /\ (task_id \in TaskIds
                  /\ StatusOf(task_id) \in {PENDING, PROCESSING}) =>
                    /\ ~IsNotFound(r)
                    /\ r # get_task_result(MaxTasks + 1)
            /\ (task_id \notin TaskIds \/ task_id \in h_evicted) =>
                    IsNotFound(r)

\* C13: a record with a terminal status has completed_at, a Completed record
\* has a result, only a Completed record has a result, only a Failed or
\* Timeout record has an error, and no record has both.
C13_RecordConsistent ==
    \A task_id \in TaskIds :
        LET task == tasks[task_id]
        IN  /\ task.status \in Terminal => task.completed_at # None
            /\ task.status = COMPLETED => task.result # None
            /\ task.result # None => task.status = COMPLETED
            /\ task.error # None => task.status \in {FAILED, TIMEOUT}
            /\ ~(task.result # None /\ task.error # None)

\* A status query returns one completed and one failed record.
C13_Witness ==
    /\ \E task_id \in completed_tasks :
         get_task_status(task_id).body[1].status = COMPLETED
    /\ \E task_id \in completed_tasks :
         get_task_status(task_id).body[1].status = FAILED

\* C14: a task that was dequeued and that the worker is no longer processing
\* is not in the active partition and is not Processing.
C14_ActiveRemoved ==
    \A task_id \in TaskIds :
        (Contains(h_started, task_id) /\ worker_task # task_id) =>
            /\ task_id \notin active_tasks
            /\ StatusOf(task_id) # PROCESSING

FinishedIds == {h_finished[i].task_id : i \in 1..Len(h_finished)}

\* C15: no id is in both partitions, active records are Processing, completed
\* records are terminal, a record enters the completed partition once, when
\* the worker finishes it, and a finished record is never active again.
C15_Partitions ==
    /\ active_tasks \cap completed_tasks = {}
    /\ \A task_id \in active_tasks : StatusOf(task_id) = PROCESSING
    /\ \A task_id \in completed_tasks : StatusOf(task_id) \in Terminal
    /\ completed_tasks \subseteq FinishedIds
    /\ active_tasks \cap FinishedIds = {}
    /\ \A i \in 1..Len(h_finished), j \in 1..Len(h_finished) :
         h_finished[i].task_id = h_finished[j].task_id => i = j

\* One record is in the completed partition while another one is active.
C15_Witness ==
    /\ completed_tasks # {}
    /\ active_tasks # {}

C16_Step ==
    /\ janitor_slept_at' # janitor_slept_at =>
         /\ task_queue' = task_queue
         /\ active_tasks' = active_tasks
         /\ tasks' = tasks
         /\ completed_tasks' \subseteq completed_tasks
    /\ janitor_slept_at' = janitor_slept_at =>
         completed_tasks \subseteq completed_tasks'

\* C16: a cleanup cycle changes nothing but the completed partition, from
\* which it only deletes, and no other step deletes from it.
C16_JanitorFrame ==
    [][C16_Step]_vars

\* A cycle has just evicted a record and retained another one.
C16_Witness ==
    /\ h_evicted # {}
    /\ completed_tasks # {}
    /\ janitor_slept_at = now

C18_Timestamps ==
    \A task_id \in TaskIds :
        LET task == tasks[task_id]
        IN  /\ task.started_at # None => task.created_at <= task.started_at[1]
            /\ (task.started_at # None /\ task.completed_at # None) =>
                 task.started_at[1] <= task.completed_at[1]
            /\ task.completed_at # None => task.created_at <= task.completed_at[1]
            /\ task.started_at = None <=> task.status = PENDING
            /\ task.completed_at = None <=> task.status \in {PENDING, PROCESSING}

C18_Step ==
    \A task_id \in TaskIds :
        (\/ tasks'[task_id].status # tasks[task_id].status
         \/ tasks'[task_id].started_at # tasks[task_id].started_at
         \/ tasks'[task_id].completed_at # tasks[task_id].completed_at) =>
            worker_pc' # worker_pc

\* C18: created_at <= started_at <= completed_at where present, started_at is
\* absent exactly while Pending, completed_at exactly while Pending or
\* Processing, and only a step of the worker changes them or the status.
C18_TimestampOrder ==
    []C18_Timestamps /\ [][C18_Step]_vars

\* A task waited in the queue while the clock advanced, and has finished.
C18_Witness ==
    \E task_id \in TaskIds :
        /\ StatusOf(task_id) \in Terminal
        /\ tasks[task_id].created_at < tasks[task_id].started_at[1]

C12_Step ==
    \A task_id \in TaskIds :
        (tasks[task_id].status = PROCESSING
           /\ tasks'[task_id].status \in {FAILED, TIMEOUT}) =>
            worker_pc' = "get"

\* C12: a task that ends Failed or Timeout leaves the worker waiting for the
\* next queue item, and unless the worker is cancelled there is always a
\* later state in which every task submitted so far has a terminal status
\* (so every submitted task reaches one, a terminal status being final).
C12_WorkerKeepsGoing ==
    /\ [][C12_Step]_vars
    /\ []<>(\/ worker_pc = "cancelled"
            \/ \A task_id \in TaskIds : StatusOf(task_id) \in Terminal)

\* A task failed and the task submitted after it has finished too.
C12_Witness ==
    /\ Len(tasks) >= 2
    /\ StatusOf(1) = FAILED
    /\ StatusOf(2) \in Terminal

\* C17: an error raised inside a cleanup cycle does not stop the cleanup
\* loop: the loop is alive in every state.
C17_JanitorSurvivesError ==
    janitor_pc = "sleep"

\* C19: /scrape/sync answers 404 when the fetch succeeded with no links, 500
\* only when the fetch failed, and 200 with the links as fetched otherwise.
C19_SyncDistinguishesEmpty ==
    /\ (h_sync_outcome.kind = "ok" /\ h_sync_outcome.links = <<>>) =>
         sync_response.status_code = 404
    /\ sync_response.status_code = 500 =>
         h_sync_outcome.kind \in {"timeout", "error"}
    /\ (h_sync_outcome.kind = "ok" /\ h_sync_outcome.links # <<>>) =>
         /\ sync_response.status_code = 200
         /\ sync_response.body = h_sync_outcome.links

====
